---- MODULE Spec2Model ----
(***************************************************************************)
(* The odd-colour-out game of src/src/App.tsx (src/unnamed/part_000 is the *)
(* same component without the language table): the colour generator, the   *)
(* grid-size rule and the idle / playing / gameover loop driven by the     *)
(* start button, the cell buttons and a one-second interval.               *)
(*                                                                         *)
(* React keeps two views of the hook state.  `gameState` below is the      *)
(* current hook state, the value every updater `prev => ...` receives.     *)
(* `rendered` is the value of the `gameState` constant captured by the     *)
(* closures of the last committed render (startGame, handleBlockClick,     *)
(* the effect).  A click is a discrete event: its updates are rendered     *)
(* before the next event is dispatched.  An update made by the interval    *)
(* callback is rendered by a later task (Render).                          *)
(***************************************************************************)
EXTENDS Integers, Sequences, FiniteSets, TLC

\* ---- program constants (src/src/App.tsx:12-15) ----
INITIAL_TIME == 30
INITIAL_GRID_SIZE == 2
MAX_GRID_SIZE == 8
BASE_DIFFERENCE == 40

\* ---- bounds of the model ----
\* Correct selections are accepted while the rendered level is below MaxLevel.
MaxLevel == 21
\* Interval callbacks that may run before React renders their updates.
MaxPendingTicks == 1
\* Interval handles that can be live or referenced at once.
MaxTimers == 3

\* ---- arithmetic helpers ----
Min(a, b) == IF a < b THEN a ELSE b
Max(a, b) == IF a > b THEN a ELSE b

\* Channel values and the colour difference are fractions of Q (12 fractional bits).
Q == 64 * 64

RECURSIVE FloorLog2(_)
FloorLog2(n) == IF n < 2 THEN 0 ELSE 1 + FloorLog2(n \div 2)

\* The fractional bits of log2(x / Q) for x in [Q, 2Q), by repeated squaring.
RECURSIVE FracLog2(_, _)
FracLog2(x, w) ==
  IF w = 0 THEN 0
  ELSE LET sq == (x * x) \div Q
       IN  IF sq >= 2 * Q THEN w + FracLog2(sq \div 2, w \div 2)
                          ELSE FracLog2(sq, w \div 2)

\* Math.log2(n), in units of 1/Q.  The mantissa n / 2^k is scaled to [Q, 2Q)
\* without forming n * Q when 2^k exceeds Q (the product would leave 32 bits).
Log2(n) ==
  LET k == FloorLog2(n)
      mantissa == IF 2 ^ k <= Q THEN (n * Q) \div (2 ^ k) ELSE n \div ((2 ^ k) \div Q)
  IN  k * Q + FracLog2(mantissa, Q \div 2)

\* Mutant of Diff: the floor Math.max(2, ...) is missing.
Diff_NoFloor(level) ==
  (BASE_DIFFERENCE * Q * Q) \div (Q + (8 * Log2(level + 1)) \div 10)

\* diff of getDifferentColor, in units of 1/Q:
\*   Math.max(2, BASE_DIFFERENCE / (1 + Math.log2(level + 1) * 0.8))
Diff(level) ==
  Max(2 * Q, (BASE_DIFFERENCE * Q * Q) \div (Q + (8 * Log2(level + 1)) \div 10))

\* Diff for the levels the model reaches, computed once.
DiffOf == [level \in 1 .. (MaxLevel + 2) |-> Diff(level)]

\* ---- the random source ----
\* A value of Math.random() is draw / RandDen, a fraction in [0, 1).
RandDen == 2 ^ 10
RandomDraws == {0, RandDen - 1}

\* Math.floor(Math.random() * n)
FloorRandom(draw, n) == (draw * n) \div RandDen

\* The draws of one generateLevel call: three for the base colour (h, s, l, which
\* the model draws alike), one for changeLightness and one for diffIndex.
Draws == {[h |-> c, s |-> c, l |-> c, change |-> d, index |-> i] :
            c \in RandomDraws, d \in RandomDraws, i \in RandomDraws}

\* ---- colours ----
\* generateRandomColor; s and l are kept in units of 1/Q.
generateRandomColor(rnd) ==
  [h |-> FloorRandom(rnd.h, 360),
   s |-> (FloorRandom(rnd.s, 40) + 40) * Q,
   l |-> (FloorRandom(rnd.l, 40) + 30) * Q]

\* Mutant of Perturb: the difference is always added.
Perturb_AlwaysAdds(c, diff) == c + diff

\* One perturbed channel: base + diff > 90 ? base - diff : base + diff
Perturb(c, diff) == IF c + diff > 90 * Q THEN c - diff ELSE c + diff

\* Mutant of getDifferentColor: both channels are perturbed.
getDifferentColor_BothChannels(base, level, rnd) ==
  LET diff == Diff(level)
  IN  [h |-> base.h, l |-> Perturb(base.l, diff), s |-> Perturb(base.s, diff)]

\* getDifferentColor(base, level); changeLightness is Math.random() > 0.5.
getDifferentColor(base, level, rnd) ==
  LET diff == IF level \in DOMAIN DiffOf THEN DiffOf[level] ELSE Diff(level)
      changeLightness == 2 * rnd.change > RandDen
  IN  [h |-> base.h,
       l |-> IF changeLightness THEN Perturb(base.l, diff) ELSE base.l,
       s |-> IF ~changeLightness THEN Perturb(base.s, diff) ELSE base.s]

\* Mutant of NewGridSize: the cap at MAX_GRID_SIZE is forgotten.
NewGridSize_NoCap(level) == INITIAL_GRID_SIZE + (level \div 3)

\* Mutant of NewGridSize: level / 3 is rounded up instead of down.
NewGridSize_RoundsUp(level) == Min(MAX_GRID_SIZE, INITIAL_GRID_SIZE + ((level + 2) \div 3))

\* Mutant of NewGridSize: the grid grows every two levels.
NewGridSize_EveryTwo(level) == Min(MAX_GRID_SIZE, INITIAL_GRID_SIZE + (level \div 2))

\* newGridSize of generateLevel.
NewGridSize(level) == Min(MAX_GRID_SIZE, INITIAL_GRID_SIZE + (level \div 3))

\* Mutant of NewDiffIndex: the index is drawn from one cell too many.
NewDiffIndex_OneTooMany(n, rnd) == FloorRandom(rnd.index, n * n + 1)

\* diffIndex of generateLevel: Math.floor(Math.random() * (n * n)).
NewDiffIndex(n, rnd) == FloorRandom(rnd.index, n * n)

\* The cells the grid renders, and the ones the model clicks: the first and the last.
Cells(n) == 0 .. (n * n - 1)
ClickedCells(n) == {0, n * n - 1}

Black == [h |-> 0, s |-> 0, l |-> 0]

VARIABLES
  gameState,   \* current hook state: [score, timeLeft, level, status, gridSize]
  colors,      \* [base, diff, diffIndex]
  rendered,    \* the gameState captured by the closures of the last commit
  timerRef,    \* timerRef.current: 0 is null, otherwise an interval handle
  intervals,   \* the interval handles that have not been cleared
  pendingTicks,\* interval updates not yet rendered
  last         \* history: the last operation and the state it started from

vars == <<gameState, colors, rendered, timerRef, intervals, pendingTicks, last>>

Init ==
  /\ gameState = [score |-> 0, timeLeft |-> INITIAL_TIME, level |-> 1,
                  status |-> "idle", gridSize |-> INITIAL_GRID_SIZE]
  /\ colors = [base |-> Black, diff |-> Black, diffIndex |-> -1]
  /\ rendered = gameState
  /\ timerRef = 0
  /\ intervals = {}
  /\ pendingTicks = 0
  /\ last = [op |-> "init", gameState |-> gameState, colors |-> colors, ticksOnly |-> -1]

\* What the history variable records when operation op runs: the operation, the
\* state it started from, and ticksOnly, the number of ticks since startGame as
\* long as no selection was made since (-1 otherwise).
Record(op) ==
  [op |-> op, gameState |-> gameState, colors |-> colors,
   ticksOnly |-> IF op = "startGame" THEN 0
                 ELSE IF op = "tick" /\ last.ticksOnly >= 0 THEN last.ticksOnly + 1
                 ELSE IF op = "render" THEN last.ticksOnly
                 ELSE -1]

\* clearInterval(timerRef.current), guarded by `if (timerRef.current)`.
ClearTimerRef(live, ref) == live \ {ref}

\* setInterval returns a handle that no live interval and no reference holds.
FreshTimer(live, ref) ==
  CHOOSE id \in 1 .. MaxTimers : id \notin live /\ id # ref /\
     \A other \in 1 .. MaxTimers : (other \notin live /\ other # ref) => id <= other

\* Mutant of TimerEffect: an effect without cleanup and without dependencies,
\* whose body runs at every commit.
TimerEffect_NoCleanup(old, gs, ref, live) ==
  IF gs.status = "playing" /\ gs.timeLeft > 0
  THEN IF Cardinality(live) >= 2 THEN [ref |-> ref, live |-> live]
       ELSE LET id == FreshTimer(live, ref)
            IN  [ref |-> id, live |-> live \cup {id}]
  ELSE [ref |-> ref, live |-> ClearTimerRef(live, ref)]

\* The effect of useEffect(..., [gameState.status]) for a commit of state gs:
\* React runs the previous cleanup and then the body when the dependency changed.
\* The result is [ref, live].
TimerEffect(old, gs, ref, live) ==
  IF old.status = gs.status THEN [ref |-> ref, live |-> live]
  ELSE LET cleaned == ClearTimerRef(live, ref)
       IN  IF gs.status = "playing" /\ gs.timeLeft > 0
           THEN LET id == FreshTimer(cleaned, ref)
                IN  [ref |-> id, live |-> cleaned \cup {id}]
           ELSE [ref |-> ref, live |-> ClearTimerRef(cleaned, ref)]

\* React commits state gs: the closures are rebuilt and the effect may run.
Commit(gs) ==
  LET e == TimerEffect(rendered, gs, timerRef, intervals)
  IN  /\ rendered' = gs
      /\ timerRef' = e.ref
      /\ intervals' = e.live
      /\ pendingTicks' = 0

\* generateLevel(level) applied to hook state gs: the new colors and the
\* update prev => ({...prev, gridSize: newGridSize}).
generateLevel(gs, level, rnd) ==
  LET base == generateRandomColor(rnd)
      newGridSize == NewGridSize(level)
  IN  [gameState |-> [gs EXCEPT !.gridSize = newGridSize],
       colors |-> [base |-> base, diff |-> getDifferentColor(base, level, rnd),
                   diffIndex |-> NewDiffIndex(newGridSize, rnd)]]

\* Mutant of ResetState: the reset spreads the old state and keeps its score.
ResetState_KeepsScore ==
  [score |-> gameState.score, timeLeft |-> INITIAL_TIME, level |-> 1,
   status |-> "playing", gridSize |-> INITIAL_GRID_SIZE]

\* The object startGame passes to setGameState.
ResetState ==
  [score |-> 0, timeLeft |-> INITIAL_TIME, level |-> 1,
   status |-> "playing", gridSize |-> INITIAL_GRID_SIZE]

\* startGame: the button exists in the idle and gameover screens only.
StartGame ==
  /\ rendered.status \in {"idle", "gameover"}
  /\ \E rnd \in Draws :
       LET g == generateLevel(ResetState, 1, rnd)
       IN  /\ gameState' = g.gameState
           /\ colors' = g.colors
           /\ Commit(g.gameState)
  /\ last' = Record("startGame")

\* Mutant of CorrectUpdate: the bonus is capped at the initial time.
CorrectUpdate_CappedBonus(prev, nextLevel) ==
  [prev EXCEPT !.score = prev.score + 1, !.level = nextLevel,
               !.timeLeft = Min(INITIAL_TIME, prev.timeLeft + 1)]

\* Mutant of CorrectUpdate: the level is left as it was.
CorrectUpdate_KeepsLevel(prev, nextLevel) ==
  [prev EXCEPT !.score = prev.score + 1, !.timeLeft = prev.timeLeft + 1]

\* Mutant of CorrectUpdate: the bonus is two seconds.
CorrectUpdate_DoubleBonus(prev, nextLevel) ==
  [prev EXCEPT !.score = prev.score + 1, !.level = nextLevel,
               !.timeLeft = prev.timeLeft + 2]

\* The updater of a correct selection, applied to the hook state prev.
CorrectUpdate(prev, nextLevel) ==
  [prev EXCEPT !.score = prev.score + 1, !.level = nextLevel,
               !.timeLeft = prev.timeLeft + 1]

\* Mutant of WrongUpdate: the penalty is not clamped at 0.
WrongUpdate_NoClamp(prev) == [prev EXCEPT !.timeLeft = prev.timeLeft - 3]

\* Mutant of WrongUpdate: a penalty that uses up the time ends the game.
WrongUpdate_EndsGame(prev) ==
  IF prev.timeLeft <= 3
  THEN [prev EXCEPT !.timeLeft = 0, !.status = "gameover"]
  ELSE [prev EXCEPT !.timeLeft = prev.timeLeft - 3]

\* The updater of an incorrect selection.
WrongUpdate(prev) == [prev EXCEPT !.timeLeft = Max(0, prev.timeLeft - 3)]

\* handleBlockClick(index): reads status, level and diffIndex from the render.
HandleBlockClick(index) ==
  IF rendered.status # "playing"
  THEN /\ last' = Record("ignored")
       /\ UNCHANGED <<gameState, colors, rendered, timerRef, intervals, pendingTicks>>
  ELSE IF index = colors.diffIndex
  THEN /\ rendered.level < MaxLevel
       /\ LET nextLevel == rendered.level + 1
          IN  \E rnd \in Draws :
                LET g == generateLevel(CorrectUpdate(gameState, nextLevel), nextLevel, rnd)
                IN  /\ gameState' = g.gameState
                    /\ colors' = g.colors
                    /\ Commit(g.gameState)
       /\ last' = Record("correct")
  ELSE /\ gameState' = WrongUpdate(gameState)
       /\ colors' = colors
       /\ Commit(gameState')
       /\ last' = Record("wrong")

\* Mutant of TickUpdate: the game ends one tick late (< 1 for <= 1).
TickUpdate_EndsLate(prev, ref, live) ==
  IF prev.timeLeft < 1
  THEN [state |-> [prev EXCEPT !.timeLeft = 0, !.status = "gameover"],
        live |-> ClearTimerRef(live, ref)]
  ELSE [state |-> [prev EXCEPT !.timeLeft = prev.timeLeft - 1], live |-> live]

\* Mutant of TickUpdate: the callback always decrements and never ends the game.
TickUpdate_NoStop(prev, ref, live) ==
  [state |-> [prev EXCEPT !.timeLeft = prev.timeLeft - 1], live |-> live]

\* Mutant of TickUpdate: the game ends but the interval is not cleared.
TickUpdate_KeepsInterval(prev, ref, live) ==
  IF prev.timeLeft <= 1
  THEN [state |-> [prev EXCEPT !.timeLeft = 0, !.status = "gameover"], live |-> live]
  ELSE [state |-> [prev EXCEPT !.timeLeft = prev.timeLeft - 1], live |-> live]

\* Mutant of TickUpdate: at the last second the callback leaves the state alone.
TickUpdate_NeverEnds(prev, ref, live) ==
  IF prev.timeLeft <= 1
  THEN [state |-> prev, live |-> live]
  ELSE [state |-> [prev EXCEPT !.timeLeft = prev.timeLeft - 1], live |-> live]

\* The updater of the interval callback; the result is [state, live].
TickUpdate(prev, ref, live) ==
  IF prev.timeLeft <= 1
  THEN [state |-> [prev EXCEPT !.timeLeft = 0, !.status = "gameover"],
        live |-> ClearTimerRef(live, ref)]
  ELSE [state |-> [prev EXCEPT !.timeLeft = prev.timeLeft - 1], live |-> live]

\* A live interval fires.
Tick ==
  /\ intervals # {}
  /\ pendingTicks < MaxPendingTicks
  /\ LET t == TickUpdate(gameState, timerRef, intervals)
     IN  /\ gameState' = t.state
         /\ intervals' = t.live
  /\ pendingTicks' = pendingTicks + 1
  /\ last' = Record("tick")
  /\ UNCHANGED <<colors, rendered, timerRef>>

\* React renders the updates of the interval callback.
Render ==
  /\ pendingTicks > 0
  /\ Commit(gameState)
  /\ last' = Record("render")
  /\ UNCHANGED <<gameState, colors>>

Click == \E index \in ClickedCells(rendered.gridSize) : HandleBlockClick(index)

Next == StartGame \/ Click \/ Tick \/ Render

Spec == Init /\ [][Next]_vars

\* A live interval keeps firing and React renders the updates it is given;
\* nothing obliges the player to click or to start a game.
FairSpec == Spec /\ WF_vars(Tick) /\ WF_vars(Render)

\* ---- the generator alone, as a function of the level ----
\* FnSpec applies generateLevel to hook states of chosen levels: every level up to
\* FnMaxLevel and the levels 2^k - 1 up to k = FnMaxExp, whose logarithm is k.
FnMaxLevel == 24
FnMaxExp == 25

FnLevels == (1 .. FnMaxLevel) \cup {2 ^ k - 1 : k \in 1 .. FnMaxExp}

\* Draws that make floor(random * 40) take each of 0 .. 39.
FnRandomDraws == {(k * RandDen + 39) \div 40 : k \in 0 .. 39}
FnDraws == {[h |-> c, s |-> c, l |-> c, change |-> d, index |-> i] :
              c \in FnRandomDraws, d \in RandomDraws, i \in RandomDraws}

FnInit ==
  /\ \E level \in FnLevels : gameState = [ResetState EXCEPT !.level = level]
  /\ colors = [base |-> Black, diff |-> Black, diffIndex |-> -1]
  /\ rendered = gameState
  /\ timerRef = 0
  /\ intervals = {}
  /\ pendingTicks = 0
  /\ last = [op |-> "init", gameState |-> gameState, colors |-> colors, ticksOnly |-> -1]

\* generateLevel(level) for the level of the state.
FnGenerateLevel ==
  /\ last.op = "init"
  /\ \E rnd \in FnDraws :
       LET g == generateLevel(gameState, gameState.level, rnd)
       IN  /\ gameState' = g.gameState
           /\ colors' = g.colors
  /\ last' = Record("generateLevel")
  /\ UNCHANGED <<rendered, timerRef, intervals, pendingTicks>>

\* generateLevel(level + 1) after generateLevel(level), as a correct selection
\* makes it follow.
FnNextLevel ==
  /\ last.op = "generateLevel"
  /\ \E rnd \in Draws :
       LET nextLevel == gameState.level + 1
           g == generateLevel([gameState EXCEPT !.level = nextLevel], nextLevel, rnd)
       IN  /\ gameState' = g.gameState
           /\ colors' = g.colors
  /\ last' = Record("nextLevel")
  /\ UNCHANGED <<rendered, timerRef, intervals, pendingTicks>>

FnNext == FnGenerateLevel \/ FnNextLevel

FnSpec == FnInit /\ [][FnNext]_vars

\* ---- what the claims speak of ----
Prev == last.gameState

\* A puzzle generateLevel can produce for `level` on a grid of side n: a base colour
\* in the ranges of generateRandomColor, a variant that is getDifferentColor of it,
\* and a variant index among the n * n cells.
IsPuzzleFor(c, level, n) ==
  /\ c.base.h \in 0 .. 359
  /\ c.base.s \in (40 * Q) .. (79 * Q)
  /\ c.base.l \in (30 * Q) .. (69 * Q)
  /\ \E rnd \in Draws : c.diff = getDifferentColor(c.base, level, rnd)
  /\ c.diffIndex \in Cells(n)

Abs(x) == IF x < 0 THEN -x ELSE x

\* The differences of the variant from the base in saturation and in lightness.
SatDelta(c) == Abs(c.diff.s - c.base.s)
LightDelta(c) == Abs(c.diff.l - c.base.l)

\* A state in which generateLevel has just produced colors for gameState.level.
Generated == last.op \in {"generateLevel", "nextLevel"}

\* C1: startGame, from idle or from gameover and whatever the score, level, time
\* and grid size were, leaves status playing, score 0, timeLeft 30, level 1,
\* gridSize 2 and a level-1 puzzle, rendered at once.
C1_StartResets ==
  last.op = "startGame" =>
    /\ Prev.status \in {"idle", "gameover"}
    /\ gameState = [score |-> 0, timeLeft |-> 30, level |-> 1,
                    status |-> "playing", gridSize |-> 2]
    /\ rendered = gameState
    /\ IsPuzzleFor(colors, 1, 2)

\* C1 witness: a restart from gameover after a round that had scored and grown the grid.
C1_Witness ==
  /\ last.op = "startGame"
  /\ Prev.status = "gameover"
  /\ Prev.score > 0
  /\ Prev.gridSize > 2
  /\ Prev.timeLeft = 0

\* C2: a selection of the variant cell while playing adds exactly 1 to score, level
\* and timeLeft (however large), sets gridSize to min(8, 2 + floor(newLevel / 3)),
\* generates a puzzle for the new level and keeps status playing; from the start
\* state it gives score 1, level 2, timeLeft 31, gridSize 2.
C2_CorrectSelection ==
  (last.op = "correct" /\ Prev.status = "playing") =>
    /\ gameState.score = Prev.score + 1
    /\ gameState.level = Prev.level + 1
    /\ gameState.timeLeft = Prev.timeLeft + 1
    /\ gameState.gridSize =
         (IF 2 + (gameState.level \div 3) < 8 THEN 2 + (gameState.level \div 3) ELSE 8)
    /\ gameState.status = "playing"
    /\ rendered = gameState
    /\ IsPuzzleFor(colors, gameState.level, gameState.gridSize)
    /\ (Prev.score = 0 /\ Prev.level = 1 /\ Prev.timeLeft = 30) =>
         gameState = [score |-> 1, level |-> 2, timeLeft |-> 31,
                      status |-> "playing", gridSize |-> 2]

\* C2 witness: a correct selection that lifts timeLeft above the initial 30.
C2_Witness ==
  /\ last.op = "correct"
  /\ Prev.status = "playing"
  /\ Prev.timeLeft = 30
  /\ gameState.timeLeft = 31
  /\ gameState.score = 1

\* C3: a selection of another cell while playing sets timeLeft to
\* max(0, timeLeft - 3) and changes nothing else: score, level, gridSize, status
\* and the puzzle stay; from the start state it gives score 0, level 1, timeLeft 27.
C3_IncorrectSelection ==
  (last.op = "wrong" /\ Prev.status = "playing") =>
    /\ gameState.timeLeft = (IF Prev.timeLeft - 3 > 0 THEN Prev.timeLeft - 3 ELSE 0)
    /\ gameState.score = Prev.score
    /\ gameState.level = Prev.level
    /\ gameState.gridSize = Prev.gridSize
    /\ gameState.status = Prev.status
    /\ colors = last.colors
    /\ (Prev.score = 0 /\ Prev.level = 1 /\ Prev.timeLeft = 30) =>
         (gameState.score = 0 /\ gameState.level = 1 /\ gameState.timeLeft = 27)

\* C3 witness: start followed by one incorrect selection.
C3_Witness ==
  /\ last.op = "wrong"
  /\ Prev.status = "playing"
  /\ Prev.timeLeft = 30
  /\ gameState.timeLeft = 27
  /\ gameState.level = 1

\* C4: a tick while playing takes 1 from timeLeft and keeps status playing when
\* timeLeft > 1, and sets timeLeft 0 and status gameover when timeLeft <= 1; score,
\* level, gridSize and the puzzle stay.
C4_Tick ==
  (last.op = "tick" /\ Prev.status = "playing") =>
    /\ Prev.timeLeft > 1 =>
         (gameState.timeLeft = Prev.timeLeft - 1 /\ gameState.status = "playing")
    /\ Prev.timeLeft <= 1 =>
         (gameState.timeLeft = 0 /\ gameState.status = "gameover")
    /\ gameState.score = Prev.score
    /\ gameState.level = Prev.level
    /\ gameState.gridSize = Prev.gridSize
    /\ colors = last.colors

\* C4 witness: the tick at timeLeft 1 that ends a round in which the player scored.
C4_Witness ==
  /\ last.op = "tick"
  /\ Prev.status = "playing"
  /\ Prev.timeLeft = 1
  /\ Prev.score > 0
  /\ gameState.status = "gameover"
  /\ gameState.timeLeft = 0

\* C5: timeLeft is never negative, in the hook state and in the rendered one; an
\* incorrect selection at timeLeft 0, 1 or 2 leaves timeLeft 0.
C5_TimeNeverNegative ==
  /\ gameState.timeLeft >= 0
  /\ rendered.timeLeft >= 0
  /\ (last.op = "wrong" /\ Prev.timeLeft \in {0, 1, 2}) => gameState.timeLeft = 0

\* C5 witness: an incorrect selection at timeLeft 2.
C5_Witness ==
  /\ last.op = "wrong"
  /\ Prev.timeLeft = 2
  /\ gameState.timeLeft = 0

\* C6: once status is gameover no tick and no selection, of the variant cell or of
\* another, changes score, level, gridSize, timeLeft, status or the puzzle, and a
\* selection while status is idle changes nothing either.
C6_TerminalFrozen ==
  (last.op \in {"tick", "correct", "wrong", "ignored"}
     /\ Prev.status \in {"gameover", "idle"}) =>
    (gameState = Prev /\ colors = last.colors)

\* C7: an interval is live only while status is playing: none is live in idle or
\* gameover, every tick is applied to a playing state, and the only interval that
\* can be live is the one the current session's effect stored in timerRef.
C7_TimerLifecycle ==
  /\ gameState.status # "playing" => intervals = {}
  /\ rendered.status # "playing" => intervals = {}
  /\ intervals \subseteq {timerRef}
  /\ last.op = "tick" => Prev.status = "playing"

\* C7 witness: a tick of the second session's interval (handle 2 is given out only
\* by a restart, while timerRef still names the first session's handle 1), after the
\* first interval was cancelled on game over.
C7_Witness ==
  /\ last.op = "tick"
  /\ timerRef = 2
  /\ intervals = {2}
  /\ gameState.status = "playing"
  /\ gameState.timeLeft < 30

\* C8: status changes only idle -> playing (start), playing -> gameover (tick) and
\* gameover -> playing (restart); it never returns to idle, never goes from idle to
\* gameover, and no selection ends the game.
C8_StatusTransitions ==
  /\ \/ gameState.status = Prev.status
     \/ Prev.status = "idle" /\ gameState.status = "playing" /\ last.op = "startGame"
     \/ Prev.status = "playing" /\ gameState.status = "gameover" /\ last.op = "tick"
     \/ Prev.status = "gameover" /\ gameState.status = "playing" /\ last.op = "startGame"
  /\ gameState.status = "idle" => (Prev.status = "idle" /\ last.op \in {"init", "ignored"})
  /\ rendered.status = "idle" => gameState.status = "idle"

\* C8 witness: the second game over of a run, idle -> playing -> gameover -> playing
\* -> gameover.
C8_Witness ==
  /\ last.op = "tick"
  /\ Prev.status = "playing"
  /\ gameState.status = "gameover"
  /\ timerRef = 2

\* C9: between one startGame and the next no tick and no selection lowers score,
\* level or gridSize, and gridSize stays within 2 .. 8.
C9_SessionMonotone ==
  /\ last.op \in {"tick", "correct", "wrong", "ignored", "render"} =>
       /\ gameState.score >= Prev.score
       /\ gameState.level >= Prev.level
       /\ gameState.gridSize >= Prev.gridSize
  /\ gameState.gridSize \in 2 .. 8
  /\ rendered.gridSize \in 2 .. 8

\* C9 witness: a correct selection at a level where 2 + floor(level / 3) exceeds 8.
C9_Witness ==
  /\ last.op = "correct"
  /\ gameState.level >= 21
  /\ gameState.gridSize = 8
  /\ Prev.gridSize = 8

\* C10: while status is playing the variant index is one of the gridSize * gridSize
\* cells of the grid in the game state (and of the rendered grid), so exactly one
\* rendered cell is the different one.
C10_VariantIndexInRange ==
  gameState.status = "playing" =>
    /\ 0 <= colors.diffIndex
    /\ colors.diffIndex < gameState.gridSize * gameState.gridSize
    /\ Cardinality({i \in Cells(rendered.gridSize) : i = colors.diffIndex}) = 1

\* C10 witness: the variant is the last cell of an 8 x 8 grid.
C10_Witness ==
  /\ gameState.status = "playing"
  /\ gameState.gridSize = 8
  /\ colors.diffIndex = 63
\* C11: for every level L >= 1 the grid size generateLevel stores,
\* min(8, 2 + floor(L / 3)), lies in 2 .. 8 and does not decrease from L to L + 1;
\* it is 2 at levels 1 and 2, 5 at level 9 and 8 at level 19 and above.
C11_GridSizeFunction ==
  last.op \in {"generateLevel", "nextLevel"} =>
    /\ gameState.gridSize \in 2 .. 8
    /\ gameState.gridSize =
         (IF 2 + (gameState.level \div 3) < 8 THEN 2 + (gameState.level \div 3) ELSE 8)
    /\ last.op = "nextLevel" => gameState.gridSize >= Prev.gridSize
    /\ gameState.level \in {1, 2} => gameState.gridSize = 2
    /\ gameState.level = 9 => gameState.gridSize = 5
    /\ gameState.level >= 19 => gameState.gridSize = 8

\* C11 witness: generateLevel(19) after generateLevel(18): the grid stays 8 x 8.
C11_Witness ==
  /\ last.op = "nextLevel"
  /\ gameState.level = 19
  /\ gameState.gridSize = 8
  /\ Prev.level = 18
  /\ Prev.gridSize = 8
\* C12: after startGame, while only ticks occur, n ticks with 0 <= n < 30 leave
\* status playing, timeLeft 30 - n and score 0; the 30th tick, and none before it,
\* sets timeLeft 0 and status gameover with score 0.
C12_ThirtyTicks ==
  last.ticksOnly >= 0 =>
    /\ last.ticksOnly <= 30
    /\ last.ticksOnly < 30 =>
         /\ gameState.status = "playing"
         /\ gameState.timeLeft = 30 - last.ticksOnly
    /\ last.ticksOnly = 30 =>
         /\ gameState.status = "gameover"
         /\ gameState.timeLeft = 0
    /\ gameState.score = 0

\* C12 witness: the 30th tick after a restart, with no selection in that round.
C12_Witness ==
  /\ last.ticksOnly = 30
  /\ last.op = "tick"
  /\ gameState.status = "gameover"
  /\ timerRef = 2
\* C13 as claimed: in every reachable state timeLeft = 0 implies status gameover
\* (while playing the remaining time is at least 1), also after an incorrect
\* selection that clamps timeLeft to 0.
C13_ZeroTimeMeansGameOver ==
  /\ gameState.timeLeft = 0 => gameState.status = "gameover"
  /\ gameState.status = "playing" => gameState.timeLeft >= 1

\* C13 as amended: timeLeft = 0 implies status gameover except right after an
\* incorrect selection made while playing with timeLeft <= 3: it clamps timeLeft to
\* 0 and leaves status playing, the interval still live, until the next tick ends
\* the game or a correct selection lifts timeLeft to 1.
C13_ZeroTimeWhilePlayingOnlyAfterPenalty ==
  gameState.timeLeft = 0 =>
    \/ gameState.status = "gameover"
    \/ /\ gameState.status = "playing"
       /\ last.op = "wrong"
       /\ Prev.status = "playing"
       /\ Prev.timeLeft <= 3
       /\ intervals # {}

\* C13 witness: an incorrect selection at timeLeft 3 leaves a playing state at 0.
C13_Witness ==
  /\ gameState.timeLeft = 0
  /\ gameState.status = "playing"
  /\ last.op = "wrong"
  /\ Prev.timeLeft = 3
\* C14: for every base colour of generateRandomColor and every level L the variant
\* has the hue of the base and differs from it in exactly one of saturation and
\* lightness, by max(2, 40 / (1 + 0.8 * log2(L + 1))); at the levels L = 2^k - 1
\* that is max(2, 400 / (10 + 8 k)), here to within 1/256 (the fixed-point
\* quotient truncates 0.8 k and the division).
C14_VariantColour ==
  Generated =>
    LET delta == SatDelta(colors) + LightDelta(colors)
        k == FloorLog2(gameState.level + 1)
    IN  /\ colors.base.h \in 0 .. 359
        /\ colors.base.s \in {x * Q : x \in 40 .. 79}
        /\ colors.base.l \in {x * Q : x \in 30 .. 69}
        /\ colors.diff.h = colors.base.h
        /\ (SatDelta(colors) = 0) # (LightDelta(colors) = 0)
        /\ delta = Diff(gameState.level)
        /\ 2 ^ k = gameState.level + 1 =>
             IF 400 <= 2 * (10 + 8 * k)
             THEN delta = 2 * Q
             ELSE Abs(delta * (10 + 8 * k) - 400 * Q) <= (Q \div 256) * (10 + 8 * k)

\* C14 witness: at level 7 (log2 8 = 3) the saturation alone differs, by 40 / 3.4.
C14_Witness ==
  /\ Generated
  /\ gameState.level = 7
  /\ LightDelta(colors) = 0
  /\ SatDelta(colors) > 11 * Q
  /\ SatDelta(colors) < 12 * Q

\* C15: the displayed difficulty statement: from level 20 on the difference
\* computed by getDifferentColor is below 2.
C15_BelowTwoByLevel20 ==
  (Generated /\ gameState.level >= 20) =>
    SatDelta(colors) + LightDelta(colors) < 2 * Q

\* C16: for every base colour of generateRandomColor and every level the perturbed
\* channel of the variant is at most 90 and at least 0, the difference having been
\* subtracted exactly when base + difference exceeds 90; saturation and lightness
\* of both colours lie in [0, 100].
C16_ChannelBounds ==
  Generated =>
    LET delta == SatDelta(colors) + LightDelta(colors)
        base == IF SatDelta(colors) # 0 THEN colors.base.s ELSE colors.base.l
        perturbed == IF SatDelta(colors) # 0 THEN colors.diff.s ELSE colors.diff.l
    IN  /\ perturbed <= 90 * Q
        /\ perturbed >= 0
        /\ (perturbed < base) <=> (base + delta > 90 * Q)
        /\ \A c \in {colors.base, colors.diff} :
             /\ c.s \in 0 .. (100 * Q)
             /\ c.l \in 0 .. (100 * Q)

\* C16 witness: at level 1 a saturation of 79 cannot take the difference of 22.2
\* upwards, so the variant has the lower saturation.
C16_Witness ==
  /\ Generated
  /\ gameState.level = 1
  /\ colors.base.s = 79 * Q
  /\ colors.diff.s < colors.base.s
  /\ colors.diff.s > 56 * Q

C18_RoundEnds ==
  /\ [](last.op = "tick" /\ Prev.status = "playing" =>
          IF Max(1, Prev.timeLeft) = 1
          THEN gameState.status = "gameover"
          ELSE /\ gameState.status = "playing"
               /\ Max(1, gameState.timeLeft) = Max(1, Prev.timeLeft) - 1)
  /\ (gameState.status = "playing") ~> (gameState.status = "gameover")

\* C18 witness: a round in which the player scored and then used up the time
\* with incorrect selections is ended by the one tick that follows.
C18_Witness ==
  /\ last.op = "tick"
  /\ Prev.status = "playing"
  /\ Prev.timeLeft = 0
  /\ Prev.score >= 1
  /\ gameState.status = "gameover"

\* C19: in every reachable state, idle, playing or gameover, of the hook and of
\* the last render, level = score + 1, although the new level comes from the
\* rendered level and the new score from the state the updater receives.
C19_LevelIsScorePlusOne ==
  /\ gameState.level = gameState.score + 1
  /\ rendered.level = rendered.score + 1

\* C19 witness: a correct selection handled after the tick that ended the game
\* and before its render, where the rendered snapshot and the hook state differ.
C19_Witness ==
  /\ last.op = "correct"
  /\ Prev.status = "gameover"
  /\ Prev.score >= 2
  /\ gameState.score = Prev.score + 1
  /\ gameState.level = Prev.level + 1

\* C20: in every reachable state, idle, playing or gameover, of the hook and of
\* the last render, gridSize = min(8, 2 + floor(level / 3)).
C20_GridSizeMatchesLevel ==
  /\ gameState.gridSize = Min(8, 2 + (gameState.level \div 3))
  /\ rendered.gridSize = Min(8, 2 + (rendered.level \div 3))

\* C20 witness: a game that ended at level 21, where 2 + 7 is capped at 8.
C20_Witness ==
  /\ gameState.status = "gameover"
  /\ rendered.status = "gameover"
  /\ gameState.level = 21
  /\ gameState.gridSize = 8

\* C21: in every reachable state, of the hook and of the last render,
\* timeLeft <= 30 + score: only the bonus of a correct selection adds time, one
\* second for one point.
C21_TimeBoundedByScore ==
  /\ gameState.timeLeft <= 30 + gameState.score
  /\ rendered.timeLeft <= 30 + rendered.score

\* C21 witness: correct selections before the first tick, where the bound is met:
\* three points and 33 seconds.
C21_Witness ==
  /\ last.op = "correct"
  /\ gameState.status = "playing"
  /\ gameState.score = 3
  /\ gameState.timeLeft = 33

\* C22: at most one interval is live in every reachable state, whatever starts,
\* restarts, selections and ticks came before, and a tick, the one callback of
\* that interval, lowers timeLeft by at most 1.
C22_AtMostOneInterval ==
  /\ Cardinality(intervals) <= 1
  /\ last.op = "tick" =>
       Prev.timeLeft - gameState.timeLeft \in {0, 1}

\* C22 witness: the second restart. The first session's interval has handle 1,
\* the first restart is given 2 (timerRef still holds 1), and the restart after
\* that is given 1 again; it is the only live interval.
C22_Witness ==
  /\ last.op = "startGame"
  /\ Prev.status = "gameover"
  /\ timerRef = 1
  /\ intervals = {1}
====
